---- MODULE Spec2Model ----
(***************************************************************************)
(* A model of actigraphy/io/data_import.py: the memoised loaders, the      *)
(* midnight index, the day window with its daylight-saving correction,     *)
(* the non-wear projection and the assembly of one day of plot data.       *)
(*                                                                         *)
(* Python lists are modelled as TLA+ sequences; a Python index i (0-based) *)
(* is position i + 1 of the sequence.  Optional integers (int | None) are  *)
(* records [some, v].  ENMO is kept in thousandths, so that enmo * 1000 is *)
(* an integer, and a rescaled acceleration value / 14 - 210 is kept in     *)
(* fourteenths.                                                            *)
(***************************************************************************)
EXTENDS Integers, Sequences, FiniteSets, TLC

VARIABLES
    rec,               \* the MetaData object get_metadata returns for base_dir
    n_points_per_day,  \* subject.n_points_per_day read from the database
    res,               \* outcome of the last get_graph_data call
    dst,               \* a call of _adjust_timepoint_for_daylight_savings
    proj,              \* a run of the non-wear projection
    mid,               \* a call of get_midnights on a timestamp list
    metadata_cache,    \* functools.cache of get_metadata: the keys stored
    midnights_cache,   \* lru_cache of get_midnights: keys, oldest first
    time_cache,        \* lru_cache of get_time: keys, oldest first
    n_dirs,            \* base directories asked for so far
    last               \* the last cached call and whether it was a hit

graphVars == <<rec, n_points_per_day, res>>
cacheVars == <<metadata_cache, midnights_cache, time_cache, n_dirs, last>>
vars == <<rec, n_points_per_day, res, dst, proj, mid,
          metadata_cache, midnights_cache, time_cache, n_dirs, last>>

----------------------------------------------------------------------------
(* Bounds of the model *)

MaxSamples == 100      \* fine samples in a recording
MaxDay == 4            \* requested day indices are -MaxDay..MaxDay

----------------------------------------------------------------------------
(* Python values *)

None == [some |-> FALSE, v |-> 0]
Some(x) == [some |-> TRUE, v |-> x]

\* `if x:` on an int | None
Truthy(x) == x.some /\ x.v # 0

Abs(x) == IF x < 0 THEN -x ELSE x

\* [0] * k
Zeros(k) == [j \in 1..(IF k > 0 THEN k ELSE 0) |-> 0]

\* one bound of a slice s[a:b] on a sequence of length n
ClampIndex(i, n) ==
    IF i < 0 THEN (IF i + n < 0 THEN 0 ELSE i + n)
    ELSE (IF i > n THEN n ELSE i)

\* s[start:stop], stop an int | None
PySlice(s, start, stop) ==
    LET n == Len(s)
        a == ClampIndex(start, n)
        b == IF stop.some THEN ClampIndex(stop.v, n) ELSE n
    IN IF a >= b THEN <<>> ELSE SubSeq(s, a + 1, b)

\* s[start:stop] = 1 on a numpy vector
SliceAssignOne(s, start, stop) ==
    LET n == Len(s)
        a == ClampIndex(start, n)
        b == ClampIndex(stop, n)
    IN [j \in 1..n |-> IF a < j /\ j <= b THEN 1 ELSE s[j]]

----------------------------------------------------------------------------
(* Timestamps.  A timestamp string "%Y-%m-%dT%H:%M:%S%z" is the record     *)
(* [date, tod, off]: the local day of the month, the local second of the   *)
(* day and the UTC offset in seconds.  All timestamps of a recording lie   *)
(* in one month.                                                           *)

SecondsPerDay == 86400
SecondsPerHour == 3600

\* datetime.strptime(time, "%Y-%m-%dT%H:%M:%S%z"): an aware datetime
Strptime(t) == [day |-> t.date, second |-> t.tod, tzoffset |-> t.off]

\* get_time
GetTime(times) == [i \in 1..Len(times) |-> Strptime(times[i])]

\* aware datetimes compare by their UTC instant
UtcInstant(d) == d.day * SecondsPerDay + d.second - d.tzoffset
DatetimeEq(a, b) == UtcInstant(a) = UtcInstant(b)

\* list.index(x): the first 0-based position holding a value equal to x
ListIndex(s, x) ==
    CHOOSE p \in 0..(Len(s) - 1) :
        /\ DatetimeEq(s[p + 1], x)
        /\ \A q \in 0..(p - 1) : ~DatetimeEq(s[q + 1], x)

RECURSIVE MidnightIndicesFirstOfPair(_, _)
\* faulty variant: the index of the first element of the pair
MidnightIndicesFirstOfPair(timestamps, i) ==
    IF i >= Len(timestamps) THEN <<>>
    ELSE (IF timestamps[i].day # timestamps[i + 1].day
          THEN <<ListIndex(timestamps, timestamps[i]) + 1>>
          ELSE <<>>) \o MidnightIndicesFirstOfPair(timestamps, i + 1)

RECURSIVE MidnightIndices(_, _)
\* the list comprehension of get_midnights over pairwise(timestamps),
\* from pair number i (the pair of positions i and i + 1)
MidnightIndices(timestamps, i) ==
    IF i >= Len(timestamps) THEN <<>>
    ELSE (IF timestamps[i].day # timestamps[i + 1].day
          THEN <<ListIndex(timestamps, timestamps[i + 1]) + 1>>
          ELSE <<>>) \o MidnightIndices(timestamps, i + 1)

\* get_midnights
GetMidnights(metadata) == MidnightIndices(GetTime(metadata.timestamp), 1)

----------------------------------------------------------------------------
(* Day window *)

\* faulty variant: the comparisons with 25 and 23 as inequalities
AdjustTimepointAtLeast(start, end, window_size) ==
    LET day_length == end - start
        hours == ((day_length + 1) * window_size) \div SecondsPerHour
        shift == SecondsPerHour \div window_size
        end1 == IF hours >= 25 THEN end - shift ELSE end
    IN IF hours <= 23 THEN end1 + shift ELSE end1

\* faulty variant: the 23-hour day shortened instead of lengthened
AdjustTimepointSameSign(start, end, window_size) ==
    LET day_length == end - start
        hours == ((day_length + 1) * window_size) \div SecondsPerHour
        shift == SecondsPerHour \div window_size
        end1 == IF hours = 25 THEN end - shift ELSE end
    IN IF hours = 23 THEN end1 - shift ELSE end1

\* _adjust_timepoint_for_daylight_savings
AdjustTimepointForDaylightSavings(start, end, window_size) ==
    LET day_length == end - start
        \* (day_length + 1) // (3600 / window_size)
        hours == ((day_length + 1) * window_size) \div SecondsPerHour
        \* int(60 * 60 / window_size)
        shift == SecondsPerHour \div window_size
        end1 == IF hours = 25 THEN end - shift ELSE end
    IN IF hours = 23 THEN end1 + shift ELSE end1

\* _day_start_and_end_time_points, given get_midnights' list
DayStartAndEndTimePoints(midnights, day, window_size) ==
    LET target_timepoints ==
            <<Some(0)>> \o [i \in 1..Len(midnights) |-> Some(midnights[i])]
                        \o <<None>>
        npairs == Len(target_timepoints) - 1
    IN IF day >= npairs \/ day < -npairs
       THEN [status |-> "IndexError", start |-> 0, end |-> None]
       ELSE LET k == IF day < 0 THEN day + npairs ELSE day
                start == target_timepoints[k + 1]
                end == target_timepoints[k + 2]
            IN IF ~start.some
               THEN [status |-> "ValueError", start |-> 0, end |-> None]
               ELSE [status |-> "ok",
                     start |-> start.v,
                     end |-> IF Truthy(end)
                             THEN Some(AdjustTimepointForDaylightSavings(
                                          start.v, end.v, window_size))
                             ELSE end]

----------------------------------------------------------------------------
(* Non-wear projection and assembly *)

RECURSIVE ProjectLoopFromOne(_, _, _, _)
\* faulty variant: the threshold nonwearscore >= 1
ProjectLoopFromOne(nonwear, nonwearscore, window_size_ratio, index0) ==
    IF index0 >= Len(nonwearscore) THEN nonwear
    ELSE ProjectLoopFromOne(
            IF nonwearscore[index0 + 1] >= 1
            THEN SliceAssignOne(nonwear, index0, index0 + window_size_ratio)
            ELSE nonwear,
            nonwearscore, window_size_ratio, index0 + 1)

RECURSIVE ProjectLoop(_, _, _, _)
\* for index in nonwear_elements: nonwear[index : index + ratio] = 1
\* (nonwear_elements are the indices i >= index0 with nonwearscore > 1)
ProjectLoop(nonwear, nonwearscore, window_size_ratio, index0) ==
    IF index0 >= Len(nonwearscore) THEN nonwear
    ELSE ProjectLoop(
            IF nonwearscore[index0 + 1] > 1
            THEN SliceAssignOne(nonwear, index0, index0 + window_size_ratio)
            ELSE nonwear,
            nonwearscore, window_size_ratio, index0 + 1)

\* the nonwear vector of get_graph_data
ProjectNonwear(nonwearscore, window_size_ratio, length) ==
    ProjectLoop([j \in 1..length |-> 0], nonwearscore, window_size_ratio, 0)

\* windowsizes[1] // windowsizes[0] - 1
WindowSizeRatio(windowsizes) == (windowsizes[2] \div windowsizes[1]) - 1

\* faulty variant: every day but the first is padded at its end
PaddingActionAlwaysPads(time_day_starts, time_day_ends) ==
    IF time_day_starts = 0 THEN "prepend" ELSE "append"

\* the padding direction chosen by get_graph_data
PaddingAction(time_day_starts, time_day_ends) ==
    IF time_day_starts = 0 THEN "prepend"
    ELSE IF ~time_day_ends.some THEN "append"
    ELSE "None"

\* faulty variant: the two directions exchanged
ExtendDataSwapped(data, extension, action) ==
    IF action = "prepend" THEN data \o extension
    ELSE IF action = "append" THEN extension \o data
    ELSE data

\* _extend_data (the action is always one of the three it accepts)
ExtendData(data, extension, action) ==
    IF action = "prepend" THEN extension \o data
    ELSE IF action = "append" THEN data \o extension
    ELSE data

\* value / 14 - 210, in fourteenths
Rescale(value) == value - 210 * 14

\* enmo[time_day_starts:time_day_ends] * 1000, its absolute value
DayAcceleration(enmo, time_day_starts, time_day_ends) ==
    LET enmo_day == PySlice(enmo, time_day_starts, time_day_ends)
    IN [j \in 1..Len(enmo_day) |-> Abs(enmo_day[j])]

\* faulty variant: the angle slice starts one sample late
DayAngleShifted(anglez, time_day_starts, time_day_ends) ==
    PySlice(anglez, time_day_starts + 1,
            IF time_day_ends.some THEN Some(time_day_ends.v + 1) ELSE None)

\* anglez[time_day_starts:time_day_ends]
DayAngle(anglez, time_day_starts, time_day_ends) ==
    PySlice(anglez, time_day_starts, time_day_ends)

\* nonwear[time_day_starts:time_day_ends]
DayNonwear(nonwear, time_day_starts, time_day_ends) ==
    PySlice(nonwear, time_day_starts, time_day_ends)

\* get_graph_data
GetGraphData(metadata, n_points, day) ==
    LET enmo == metadata.ENMO
        anglez == metadata.anglez
        nonwear == ProjectNonwear(metadata.nonwearscore,
                                  WindowSizeRatio(metadata.windowsizes),
                                  Len(enmo))
        window == DayStartAndEndTimePoints(GetMidnights(metadata), day,
                                           metadata.windowsizes[1])
        time_day_starts == window.start
        time_day_ends == window.end
        acc == DayAcceleration(enmo, time_day_starts, time_day_ends)
        ang == DayAngle(anglez, time_day_starts, time_day_ends)
        non_wear == DayNonwear(nonwear, time_day_starts, time_day_ends)
        extension == Zeros(n_points - Len(acc))
        action == PaddingAction(time_day_starts, time_day_ends)
        acc_ext == ExtendData(acc, extension, action)
    IN IF window.status # "ok"
       THEN [status |-> window.status, day |-> day,
             time_day_starts |-> 0, time_day_ends |-> None, action |-> "None",
             acc |-> <<>>, ang |-> <<>>, non_wear |-> <<>>]
       ELSE [status |-> "ok", day |-> day,
             time_day_starts |-> time_day_starts,
             time_day_ends |-> time_day_ends,
             action |-> action,
             acc |-> [j \in 1..Len(acc_ext) |-> Rescale(acc_ext[j])],
             ang |-> ExtendData(ang, extension, action),
             non_wear |-> ExtendData(non_wear, extension, action)]

----------------------------------------------------------------------------
(* Recordings: samples every half hour from local slot s0 of day 1, with   *)
(* an optional clock change at 02:00 of day 2.                             *)

FineWindow == SecondsPerHour \div 2
BaseOffset == -5 * SecondsPerHour

StartSlots == {0, 24, 47}
ClockChanges == {0, 3600, -3600}
CoarseFactors == {1, 3}
PointsPerDay == {5, 48, 50}

TimestampAt(s0, change, i) ==
    LET local0 == SecondsPerDay + (s0 + i) * FineWindow
        changed == change # 0 /\ local0 >= 2 * SecondsPerDay + 2 * SecondsPerHour
        local == IF changed THEN local0 + change ELSE local0
    IN [date |-> local \div SecondsPerDay,
        tod |-> local % SecondsPerDay,
        off |-> IF changed THEN BaseOffset + change ELSE BaseOffset]

Recording(s0, change, n, factor) ==
    [timestamp |-> [i \in 1..n |-> TimestampAt(s0, change, i - 1)],
     ENMO |-> [i \in 1..n |-> 3 * i - 100],
     anglez |-> [i \in 1..n |-> 45 - i],
     nonwearscore |-> [i \in 1..((n + factor - 1) \div factor) |->
                         IF i % 16 \in {3, 4} THEN 2
                         ELSE IF i % 16 = 5 THEN 3
                         ELSE IF i % 16 = 6 THEN 1 ELSE 0],
     windowsizes |-> <<FineWindow, FineWindow * factor>>]

NoResult ==
    [status |-> "none", day |-> 0,
     time_day_starts |-> 0, time_day_ends |-> None, action |-> "None",
     acc |-> <<>>, ang |-> <<>>, non_wear |-> <<>>]

\* values of the variables a specification does not use
EmptyRecording == Recording(0, 0, 0, 1)
NoDst == [pc |-> "off", start |-> 0, end |-> 0, window_size |-> 0,
          once |-> 0, twice |-> 0]
NoProj == [pc |-> "off", scores |-> <<>>, ratio |-> 0, length |-> 0,
           flags |-> <<>>]
NoMid == [pc |-> "off", times |-> <<>>, out |-> <<>>]
NoCall == [fn |-> "none", key |-> 0, hit |-> FALSE]

GraphIdle ==
    /\ rec = EmptyRecording
    /\ n_points_per_day = 0
    /\ res = NoResult

CacheIdle ==
    /\ metadata_cache = {}
    /\ midnights_cache = <<>>
    /\ time_cache = <<>>
    /\ n_dirs = 0
    /\ last = NoCall

Init ==
    /\ \E s0 \in StartSlots, change \in ClockChanges, n \in 1..MaxSamples,
          factor \in CoarseFactors :
          rec = Recording(s0, change, n, factor)
    /\ n_points_per_day \in PointsPerDay
    /\ res = NoResult
    /\ dst = NoDst /\ proj = NoProj /\ mid = NoMid
    /\ CacheIdle

\* a caller (the viewer) asks for one day; the call is synchronous
CallGetGraphData ==
    /\ res.status = "none"
    /\ \E day \in -MaxDay..MaxDay :
          res' = GetGraphData(rec, n_points_per_day, day)
    /\ UNCHANGED <<rec, n_points_per_day, dst, proj, mid, cacheVars>>

\* the caller takes the result (or the exception) and may call again
Return ==
    /\ res.status # "none"
    /\ res' = NoResult
    /\ UNCHANGED <<rec, n_points_per_day, dst, proj, mid, cacheVars>>

Next == CallGetGraphData \/ Return

Spec == Init /\ [][Next]_vars

----------------------------------------------------------------------------
(* _adjust_timepoint_for_daylight_savings on its own: applied to           *)
(* (start, end, window_size) and then again to (start, result,             *)
(* window_size).  The window sizes divide 3600, where the float quotient   *)
(* 3600 / window_size of the code is exact.                                *)

MaxStart == 1          \* start is 0..MaxStart
MaxHours == 27         \* end - start is at most MaxHours hours of samples

WindowSizes == {5, 1200, 1800, 3600}

DstInit ==
    /\ \E w \in WindowSizes, s \in 0..MaxStart :
         \E e \in (s + 1)..(s + MaxHours * (SecondsPerHour \div w)) :
            dst = [pc |-> "input", start |-> s, end |-> e, window_size |-> w,
                   once |-> 0, twice |-> 0]
    /\ proj = NoProj /\ mid = NoMid
    /\ GraphIdle /\ CacheIdle

DstApply ==
    /\ dst.pc = "input"
    /\ dst' = [dst EXCEPT !.pc = "once",
                          !.once = AdjustTimepointForDaylightSavings(
                                       dst.start, dst.end, dst.window_size)]
    /\ UNCHANGED <<graphVars, proj, mid, cacheVars>>

DstApplyAgain ==
    /\ dst.pc = "once"
    /\ dst' = [dst EXCEPT !.pc = "twice",
                          !.twice = AdjustTimepointForDaylightSavings(
                                        dst.start, dst.once, dst.window_size)]
    /\ UNCHANGED <<graphVars, proj, mid, cacheVars>>

DstNext == DstApply \/ DstApplyAgain

SpecDst == DstInit /\ [][DstNext]_vars

----------------------------------------------------------------------------
(* The non-wear projection of get_graph_data on its own. *)

MaxCoarse == 3         \* coarse scores in a recording
MaxScore == 2          \* non-wear scores are 0..MaxScore
MaxFine == 5           \* fine samples in a recording
MaxRatio == 3          \* window_size_ratio is -1..MaxRatio

RECURSIVE SeqsUpTo(_, _)
SeqsUpTo(S, n) ==
    IF n = 0 THEN {<<>>}
    ELSE LET shorter == SeqsUpTo(S, n - 1)
         IN shorter \cup {Append(q, x) : q \in shorter, x \in S}

ProjInit ==
    /\ \E scores \in SeqsUpTo(0..MaxScore, MaxCoarse),
          ratio \in -1..MaxRatio, length \in 0..MaxFine :
          proj = [pc |-> "input", scores |-> scores, ratio |-> ratio,
                  length |-> length, flags |-> <<>>]
    /\ dst = NoDst /\ mid = NoMid
    /\ GraphIdle /\ CacheIdle

Project ==
    /\ proj.pc = "input"
    /\ proj' = [proj EXCEPT !.pc = "done",
                            !.flags = ProjectNonwear(proj.scores, proj.ratio,
                                                     proj.length)]
    /\ UNCHANGED <<graphVars, dst, mid, cacheVars>>

ProjNext == Project

SpecNonwear == ProjInit /\ [][ProjNext]_vars

----------------------------------------------------------------------------
(* get_midnights on arbitrary timestamp lists. *)

MaxStamps == 3         \* timestamps in a list

Stamps ==
    {[date |-> d, tod |-> t, off |-> o] :
        d \in {1, 2}, t \in {0, 3600, 82800}, o \in {-18000, -14400}}

MidInit ==
    /\ \E times \in SeqsUpTo(Stamps, MaxStamps) :
          mid = [pc |-> "input", times |-> times, out |-> <<>>]
    /\ dst = NoDst /\ proj = NoProj
    /\ GraphIdle /\ CacheIdle

CallGetMidnights ==
    /\ mid.pc = "input"
    /\ mid' = [mid EXCEPT !.pc = "done",
                          !.out = MidnightIndices(GetTime(mid.times), 1)]
    /\ UNCHANGED <<graphVars, dst, proj, cacheVars>>

MidNext == CallGetMidnights

SpecMidnights == MidInit /\ [][MidNext]_vars

----------------------------------------------------------------------------
(* The memoised loaders.  A base directory is a number; the timestamp      *)
(* tuple get_time is called with is that of the directory's recording, and *)
(* different directories hold different recordings.  A directory is first  *)
(* seen by get_midnights (as get_graph_data does); directory HotDir is     *)
(* asked for again and again through get_metadata and get_midnights, and   *)
(* get_time is called again for the newest directory (as get_timezone      *)
(* does).                                                                  *)

MaxDirs == 130         \* base directories ever asked for

\* functools.lru_cache without arguments: maxsize = 128
LruMaxsize == 128

HotDir == 1

InCache(cache, key) == \E i \in 1..Len(cache) : cache[i] = key

\* a hit moves the key to the most recently used end
LruHit(cache, key) == Append(SelectSeq(cache, LAMBDA x : x # key), key)

\* faulty variant: a full cache drops its most recently used key
LruMissDropsNewest(cache, key) ==
    IF Len(cache) >= LruMaxsize
    THEN Append(SubSeq(cache, 1, Len(cache) - 1), key)
    ELSE Append(cache, key)

\* a miss stores the key, dropping the least recently used one when full
LruMiss(cache, key) ==
    IF Len(cache) >= LruMaxsize THEN Append(Tail(cache), key)
    ELSE Append(cache, key)

LruCall(cache, key) ==
    IF InCache(cache, key) THEN LruHit(cache, key) ELSE LruMiss(cache, key)

\* functools.cache: unbounded
CacheCall(cache, key) == cache \cup {key}

CacheInit ==
    /\ CacheIdle
    /\ dst = NoDst /\ proj = NoProj /\ mid = NoMid
    /\ GraphIdle

\* get_metadata(base_dir)
CachedGetMetadata ==
    /\ HotDir <= n_dirs
    /\ metadata_cache' = CacheCall(metadata_cache, HotDir)
    /\ last' = [fn |-> "get_metadata", key |-> HotDir,
                hit |-> HotDir \in metadata_cache]
    /\ UNCHANGED <<midnights_cache, time_cache, n_dirs, graphVars, dst, proj, mid>>

\* get_time(times)
CachedGetTime ==
    /\ n_dirs >= 1
    /\ time_cache' = LruCall(time_cache, n_dirs)
    /\ last' = [fn |-> "get_time", key |-> n_dirs,
                hit |-> InCache(time_cache, n_dirs)]
    /\ UNCHANGED <<metadata_cache, midnights_cache, n_dirs, graphVars, dst, proj, mid>>

\* get_midnights(base_dir): on a miss it calls get_metadata and get_time
CachedGetMidnights ==
    \E dir \in {d \in {HotDir, n_dirs + 1} : d <= MaxDirs /\ d <= n_dirs + 1} :
        /\ IF InCache(midnights_cache, dir)
           THEN /\ midnights_cache' = LruHit(midnights_cache, dir)
                /\ UNCHANGED <<metadata_cache, time_cache>>
           ELSE /\ metadata_cache' = CacheCall(metadata_cache, dir)
                /\ time_cache' = LruCall(time_cache, dir)
                /\ midnights_cache' = LruMiss(midnights_cache, dir)
        /\ last' = [fn |-> "get_midnights", key |-> dir,
                    hit |-> InCache(midnights_cache, dir)]
        /\ n_dirs' = IF dir > n_dirs THEN dir ELSE n_dirs
        /\ UNCHANGED <<graphVars, dst, proj, mid>>

CacheNext == CachedGetMetadata \/ CachedGetTime \/ CachedGetMidnights

SpecCache == CacheInit /\ [][CacheNext]_vars

----------------------------------------------------------------------------
(* Properties of get_graph_data and the day window (under Spec) *)

Midnights == GetMidnights(rec)
NumMidnights == Len(Midnights)
FineLength == Len(rec.ENMO)
Nonwear ==
    ProjectNonwear(rec.nonwearscore, WindowSizeRatio(rec.windowsizes),
                   FineLength)

Called == res.status # "none"
Returned == res.status = "ok"

\* the fine samples [WindowLo, WindowHi) the returned window holds
WindowLo ==
    IF res.time_day_starts > FineLength THEN FineLength
    ELSE res.time_day_starts
WindowHi ==
    IF res.time_day_ends.some /\ res.time_day_ends.v < FineLength
    THEN res.time_day_ends.v ELSE FineLength
SliceLength == IF WindowHi > WindowLo THEN WindowHi - WindowLo ELSE 0

Interior == res.time_day_starts # 0 /\ res.time_day_ends.some
Short == Returned /\ SliceLength < n_points_per_day

LengthsAre(n) ==
    /\ Len(res.acc) = n
    /\ Len(res.ang) = n
    /\ Len(res.non_wear) = n

\* position j of the three outputs is fine sample i (a Python index)
IsSample(j, i, nonwear) ==
    /\ res.acc[j] = Rescale(Abs(rec.ENMO[i + 1]))
    /\ res.ang[j] = rec.anglez[i + 1]
    /\ res.non_wear[j] = nonwear[i + 1]

\* position j of the three outputs is padding
IsPadding(j) ==
    /\ res.acc[j] = Rescale(0)
    /\ res.ang[j] = 0
    /\ res.non_wear[j] = 0

\* the outputs are `pad` zeros, then the window's samples, then zeros
LaidOut(pad) ==
    \A nonwear \in {Nonwear}, lo \in {WindowLo}, n \in {SliceLength} :
        \A j \in 1..Len(res.acc) :
            IF pad < j /\ j <= pad + n
            THEN IsSample(j, lo + j - pad - 1, nonwear)
            ELSE IsPadding(j)

\* C1: for every valid day index 0..m, get_graph_data returns three
\* sequences of length exactly n_points_per_day.
C1_ExactLength ==
    (Called /\ res.day \in 0..NumMidnights)
        => (Returned /\ LengthsAre(n_points_per_day))

\* C2: the three returned sequences have the same length and position j of
\* each is the same fine sample or the same padding position.
C2_Aligned ==
    Returned =>
        /\ LengthsAre(Len(res.acc))
        /\ Len(res.acc) >= SliceLength
        /\ LaidOut(IF res.action = "prepend"
                   THEN Len(res.acc) - SliceLength ELSE 0)

C2_Witness ==
    /\ Returned
    /\ res.day >= 0
    /\ SliceLength > 1
    /\ Len(res.acc) > SliceLength

C6_OutOfRangeFails ==
    (Called /\ (res.day < 0 \/ res.day > NumMidnights)) => ~Returned

ZerosBefore ==
    LengthsAre(n_points_per_day) /\ LaidOut(n_points_per_day - SliceLength)
ZerosAfter ==
    LengthsAre(n_points_per_day) /\ LaidOut(0)

\* C7 as claimed: a short day 0 is padded before the slice and a short last
\* day (window end None) after it, also when day 0 is the last day.
C7_PaddingDirection ==
    /\ (Short /\ res.day = 0) => ZerosBefore
    /\ (Short /\ res.day >= 0 /\ ~res.time_day_ends.some) => ZerosAfter

\* C7 as amended: a short day whose window starts at 0 is padded before the
\* slice, the only day of a recording with no midnight included; a short
\* last day whose window does not start at 0 is padded after it.
C7_PaddingByWindow ==
    /\ (Short /\ res.time_day_starts = 0) => ZerosBefore
    /\ (Short /\ ~res.time_day_ends.some /\ res.time_day_starts # 0)
           => ZerosAfter

C7_Witness ==
    /\ Short
    /\ SliceLength > 0
    /\ NumMidnights = 0
    /\ res.day = 0

\* the window start of the day after the returned one
NextStart ==
    DayStartAndEndTimePoints(Midnights, res.day + 1,
                             rec.windowsizes[1]).start
SamplesPerHour == SecondsPerHour \div rec.windowsizes[1]
RawHours == (NextStart - res.time_day_starts + 1) \div SamplesPerHour

\* C10 as claimed: the window end of a day that is not the last is the
\* window start of the next day.
C10_Tiling ==
    (Returned /\ res.day \in 0..(NumMidnights - 1))
        => res.time_day_ends = Some(NextStart)

\* C10 as amended: the window end of a day that is not the last is the
\* window start of the next day, moved one hour of samples back when the
\* day holds 25 hours of samples and one hour forward when it holds 23.
C10_TilingUpToCorrection ==
    (Returned /\ res.day \in 0..(NumMidnights - 1))
        => res.time_day_ends =
              Some(IF RawHours = 25 THEN NextStart - SamplesPerHour
                   ELSE IF RawHours = 23 THEN NextStart + SamplesPerHour
                   ELSE NextStart)

C10_Witness ==
    /\ Returned
    /\ res.day \in 1..(NumMidnights - 1)
    /\ RawHours = 23
    /\ res.time_day_ends.v > NextStart

----------------------------------------------------------------------------
(* Properties of get_midnights (under SpecMidnights) *)

Parsed == GetTime(mid.times)

StrictlyIncreasing ==
    \A i \in 1..(Len(Parsed) - 1) :
        UtcInstant(Parsed[i]) < UtcInstant(Parsed[i + 1])

\* fine sample i (a Python index) is the first sample of a new day
NewDayAt(i) ==
    /\ i >= 1
    /\ i < Len(Parsed)
    /\ Parsed[i + 1].day # Parsed[i].day

----------------------------------------------------------------------------
(* Properties of the daylight-saving correction (under SpecDst) *)

DstSamplesPerHour == SecondsPerHour \div dst.window_size
DstHours == (dst.end - dst.start + 1) \div DstSamplesPerHour

\* C5: the correction returns end - sph for 25 hours of samples, end + sph
\* for 23 and end otherwise, and applying it again changes nothing.
C5_DstCorrection ==
    /\ dst.pc \in {"once", "twice"} =>
           dst.once = (IF DstHours = 25 THEN dst.end - DstSamplesPerHour
                       ELSE IF DstHours = 23 THEN dst.end + DstSamplesPerHour
                       ELSE dst.end)
    /\ dst.pc = "twice" => dst.twice = dst.once

C5_Witness ==
    /\ dst.pc = "twice"
    /\ DstHours = 25
    /\ dst.once < dst.end

----------------------------------------------------------------------------
(* Properties of the non-wear projection (under SpecNonwear) *)

\* C9: for ratio >= 0 the flag vector has the fine length, and flag j is 1
\* exactly when a coarse index i has score > 1 and i <= j < min(i + ratio, L).
C9_Projection ==
    (proj.pc = "done" /\ proj.ratio >= 0) =>
        /\ Len(proj.flags) = proj.length
        /\ \A j \in 0..(proj.length - 1) :
              proj.flags[j + 1] =
                 (IF \E i \in 0..(Len(proj.scores) - 1) :
                        /\ proj.scores[i + 1] > 1
                        /\ i <= j
                        /\ j < i + proj.ratio
                  THEN 1 ELSE 0)

C9_Witness ==
    /\ proj.pc = "done"
    /\ proj.ratio >= 1
    /\ \E i \in 0..(Len(proj.scores) - 1) :
          proj.scores[i + 1] > 1 /\ i >= proj.length
    /\ \E i \in 0..(Len(proj.scores) - 1) :
          /\ proj.scores[i + 1] > 1
          /\ i < proj.length
          /\ i + proj.ratio > proj.length
    /\ \E j \in 1..Len(proj.flags) : proj.flags[j] = 0

----------------------------------------------------------------------------
(* Properties of the caches (under SpecCache) *)

Keys(cache) == {cache[i] : i \in 1..Len(cache)}

Kept(cache, cache2) == Keys(cache) \subseteq Keys(cache2)

\* C8 as claimed: a key stored by get_metadata, get_midnights or get_time
\* is never evicted.
C8_NeverEvicted ==
    [][/\ metadata_cache \subseteq metadata_cache'
       /\ Kept(midnights_cache, midnights_cache')
       /\ Kept(time_cache, time_cache')]_vars

\* a step drops a key of an lru cache only to store a new key in a full
\* cache, and drops the least recently used one
EvictsOldestWhenFull(cache, cache2) ==
    \A k \in Keys(cache) \ Keys(cache2) :
        /\ Len(cache) = LruMaxsize
        /\ Len(cache2) = LruMaxsize
        /\ k = cache[1]
        /\ cache2[Len(cache2)] \notin Keys(cache)

\* C8 as amended: get_metadata never evicts; get_midnights and get_time
\* keep at most 128 keys each and evict only the least recently used key,
\* when a new key is stored in a full cache; a call is answered from the
\* cache exactly when its key is still stored.
C8_LruEviction ==
    [][/\ metadata_cache \subseteq metadata_cache'
       /\ Len(midnights_cache') <= LruMaxsize
       /\ Len(time_cache') <= LruMaxsize
       /\ EvictsOldestWhenFull(midnights_cache, midnights_cache')
       /\ EvictsOldestWhenFull(time_cache, time_cache')
       /\ last'.fn = "get_metadata" =>
              (last'.hit <=> last'.key \in metadata_cache)
       /\ last'.fn = "get_midnights" =>
              (last'.hit <=> InCache(midnights_cache, last'.key))
       /\ last'.fn = "get_time" =>
              (last'.hit <=> InCache(time_cache, last'.key))]_vars

C8_Witness ==
    /\ last.fn = "get_midnights"
    /\ last.key = HotDir
    /\ ~last.hit
    /\ HotDir \in metadata_cache
    /\ n_dirs > LruMaxsize

====
